---- MODULE Spec2Model ----
EXTENDS Integers, Sequences, FiniteSets, TLC

(***************************************************************************)
(* nomad-pack: the variable resolution engine and the registry cache (both *)
(* called by the CLI, modelled from the design document), the info and     *)
(* status commands, and the non-interactive step group of the terminal UI. *)
(***************************************************************************)

VARIABLES
    pc,                 \* position of the running command / engine
    p,                  \* the loaded pack tree: its ordered VariableSpecs
    sources,            \* the ordered override sources handed to the engine
    ignoreMissingVars,  \* baseCommand.ignoreMissingVars
    parsedVars,         \* the resolved variables returned by Parse
    diags,              \* the diagnostics returned by Parse
    diagsNil,           \* TRUE when Parse returned nil diagnostics
    args,               \* the command's positional arguments
    rc,                 \* the exit code returned by Run (-1 while running)
    ui,                 \* what the command wrote to c.ui, in order
    doc,                \* the rows appended to the glint document, in order
    rendered,           \* TRUE once doc.RenderFrame() has run
    stages,             \* the stages of Run executed so far, with outcome
    deploymentName,     \* baseCommand.deploymentName (the --name flag)
    packName,           \* StatusCommand.packConfig.Name
    listing,            \* which listing the status command rendered
    cacheEntry,         \* Registry Cache: key -> entry (0 when not populated)
    keyLock,            \* Registry Cache: key -> the caller holding its lock
    callers,            \* each Ensure caller: position, key, result, calls
    fetches,            \* key -> remote fetches started (history)
    failedFetches,      \* key -> remote fetches that failed (history)
    closed,             \* nonInteractiveStepGroup.closed
    wgCount,            \* the counter of nonInteractiveStepGroup.wg
    steps,              \* each nonInteractiveStep: wg, done, and its calls
    waitPc,             \* position of the caller of StepGroup.Wait
    crashedBy,          \* the step whose call panicked (0 when none did)
    ewcCall,            \* ErrorWithContext: the arguments err, sub and ctx
    ctx,                \* ErrorWithContext: the ctx slice as it stands
    written,            \* the lines the UI wrote to its writer, in order
    ctxIdx              \* ErrorWithContext: position of the loop over ctx

engineVars == <<p, sources, ignoreMissingVars, parsedVars, diags, diagsNil>>
infoVars == <<args, rc, ui, doc, rendered, stages>>

statusVars == <<deploymentName, packName, listing>>

cacheVars == <<cacheEntry, keyLock, callers, fetches, failedFetches>>
groupVars == <<closed, wgCount, steps, waitPc, crashedBy>>
errorVars == <<ewcCall, ctx, written, ctxIdx>>

vars == <<pc, engineVars, infoVars, statusVars, cacheVars, groupVars, errorVars>>

\* what the commands leave alone
notCli == <<cacheVars, groupVars, errorVars>>

\* what the engine and the info command leave alone
notInfo == <<statusVars, notCli>>

----------------------------------------------------------------------------
(* Bounds *)

MaxSources == 2      \* override sources handed to one resolution

----------------------------------------------------------------------------
(* Values and types (design document, section 2 "Type System") *)

Unset == "<unset>"
NilType == "<nil>"
Bare == "<bare>"

\* the values in play: the numbers "1" and "2", every other one a string
NumberVals == {"1", "2"}

TypeOf(v) == IF v \in NumberVals THEN "number" ELSE "string"

\* Precedence rank of an override source kind, lowest first. The
\* pack-declared default is the starting value, below every override.
Rank(kind) ==
    CASE kind = "sharedFile" -> 1
      [] kind = "packFile"   -> 2
      [] kind = "env"        -> 3
      [] kind = "cli"        -> 4

SourceKinds == {"sharedFile", "packFile", "env", "cli"}

Diag(sev, kind, pack, name) ==
    [severity |-> sev, kind |-> kind, pack |-> pack, name |-> name]

HasErrors(ds) == \E i \in 1..Len(ds) : ds[i].severity = "error"

----------------------------------------------------------------------------
(* Variable Resolution Engine (design document 4.4) *)

IsQualifiedFor(src, s) == src.pack = s.pack /\ src.name = s.name
IsBareFor(src, s) == src.pack = Bare /\ src.name = s.name

\* Step 2: a bare source applies to every pack declaring the name unless a
\* pack-qualified source for the same name exists.
MatchingSources(s, srcs) ==
    LET qual == SelectSeq(srcs, LAMBDA x : IsQualifiedFor(x, s))
        bare == SelectSeq(srcs, LAMBDA x : IsBareFor(x, s))
    IN IF qual # <<>> THEN qual ELSE bare

OfRank(srcs, r) == SelectSeq(srcs, LAMBDA x : Rank(x.kind) = r)

SortBySupplyOrder(srcs) == srcs

\* Step 2: strictly increasing precedence; sources of one kind keep the
\* order in which they were supplied (last one supplied wins).
SortByPrecedence(srcs) ==
    OfRank(srcs, 1) \o OfRank(srcs, 2) \o OfRank(srcs, 3) \o OfRank(srcs, 4)

\* Step 1 and the type the overrides are reconciled against (step 3).
StartValue(s) ==
    [value |-> s.default,
     type  |-> IF s.type # NilType THEN s.type
               ELSE IF s.default # Unset THEN TypeOf(s.default)
               ELSE NilType,
     diags |-> <<>>]

\* Steps 2 and 3 for one source: overwrite, or discard on a type mismatch.
\* A mismatch is recovered in place (section 7) and is none of the fatal
\* conditions, so its diagnostic does not fail the resolution.
ApplySource(acc, s, src) ==
    IF acc.type = NilType
    THEN [acc EXCEPT !.value = src.value, !.type = TypeOf(src.value)]
    ELSE IF TypeOf(src.value) = acc.type
    THEN [acc EXCEPT !.value = src.value]
    ELSE [acc EXCEPT !.diags =
              Append(@, Diag("warning", "TypeMismatch", s.pack, s.name))]

RECURSIVE ApplyAll(_, _, _)
ApplyAll(acc, s, srcs) ==
    IF srcs = <<>> THEN acc
    ELSE ApplyAll(ApplySource(acc, s, Head(srcs)), s, Tail(srcs))

\* Step 4: a value still unset is an error, or a warning under ignoreMissing.
MissingRequired(value, s, ignoreMissing) ==
    IF value # Unset THEN <<>>
    ELSE IF ignoreMissing
    THEN << Diag("warning", "MissingRequired", s.pack, s.name) >>
    ELSE << Diag("error", "MissingRequired", s.pack, s.name) >>

\* Steps 1-4 for one (pack alias, variable name) pair.
ResolveSpec(s, srcs, ignoreMissing) ==
    LET acc == ApplyAll(StartValue(s), s,
                        SortByPrecedence(MatchingSources(s, srcs)))
    IN [value |-> acc.value,
        diags |-> acc.diags \o MissingRequired(acc.value, s, ignoreMissing)]

\* Step 5: a source naming a variable no VariableSpec of the tree declares.
IsUnknown(src, specs) ==
    ~ \E i \in 1..Len(specs) :
          IsQualifiedFor(src, specs[i]) \/ IsBareFor(src, specs[i])

RECURSIVE UnknownVariables(_, _)
UnknownVariables(srcs, specs) ==
    IF srcs = <<>> THEN <<>>
    ELSE (IF IsUnknown(Head(srcs), specs)
          THEN << Diag("warning", "UnknownVariable",
                       Head(srcs).pack, Head(srcs).name) >>
          ELSE <<>>)
         \o UnknownVariables(Tail(srcs), specs)

\* The entry of the ResolvedVariableSet for one spec: the spec and its value.
Entry(s, value) ==
    [pack |-> s.pack, name |-> s.name, type |-> s.type,
     default |-> s.default, value |-> value]

RECURSIVE ResolveTree(_, _, _, _)
ResolveTree(specs, all, srcs, ignoreMissing) ==
    IF specs = <<>>
    THEN [vars |-> <<>>, diags |-> UnknownVariables(srcs, all)]
    ELSE LET r    == ResolveSpec(Head(specs), srcs, ignoreMissing)
             rest == ResolveTree(Tail(specs), all, srcs, ignoreMissing)
         IN [vars  |-> (IF r.value = Unset THEN <<>>
                        ELSE << Entry(Head(specs), r.value) >>) \o rest.vars,
             diags |-> r.diags \o rest.diags]

\* Resolver.Resolve(): ResolvedVariableSet + Diagnostics.
Resolve(specs, srcs, ignoreMissing) ==
    ResolveTree(specs, specs, srcs, ignoreMissing)

----------------------------------------------------------------------------
(* Input domains *)

SeqsUpTo(S, n) == UNION { [1..k -> S] : k \in 0..n }

\* declared type and default of a VariableSpec; a declared default always
\* has the declared type (anything else is a LoadParseError at load time)
SpecShapes ==
    { <<NilType, Unset>>, <<NilType, "a">>, <<NilType, "1">>,
      <<"string", Unset>>, <<"string", "a">>,
      <<"number", Unset>>, <<"number", "1">> }

VariableSpec(pack, name, shape) ==
    [pack |-> pack, name |-> name, type |-> shape[1], default |-> shape[2]]

Source(kind, pack, name, value) ==
    [kind |-> kind, pack |-> pack, name |-> name, value |-> value]

\* The engine on its own: one pack "root" declaring one variable "x", and
\* sources naming root.x or the bare x.
ResolveSources ==
    { Source(k, t[1], t[2], v) :
        k \in SourceKinds,
        t \in { <<"root", "x">>, <<Bare, "x">> },
        v \in {"b", "c", "2"} }

MaxCallers == 2      \* concurrent callers of Ensure
MaxEnsure == 2       \* Ensure calls one caller makes (a retry is a second call)
MaxSteps == 2        \* steps added to one step group
MaxCalls == 2        \* method calls made on one step

Callers == 1..MaxCallers
Steps == 1..MaxSteps

ResolvedRefs == {"v1", "v2"}

\* the cache key (registry, packName, resolvedRef)
CacheKey(ref) == [registry |-> "default", packName |-> "hello_world", resolvedRef |-> ref]

Keys == { CacheKey(r) : r \in ResolvedRefs }

NoResult == [status |-> "none", entry |-> 0]

\* a cold cache, nobody calling Ensure
CacheIdle ==
    /\ cacheEntry = [k \in Keys |-> 0]
    /\ keyLock = [k \in Keys |-> 0]
    /\ callers = [c \in Callers |->
                    [pc |-> "idle", key |-> CacheKey("v1"), result |-> NoResult, calls |-> 0]]
    /\ fetches = [k \in Keys |-> 0]
    /\ failedFetches = [k \in Keys |-> 0]

NoStep ==
    [state |-> "none", wg |-> FALSE, done |-> FALSE, addedClosed |-> FALSE,
     calls |-> 0, last |-> "none"]

\* ui.StepGroup(): an open group without steps
GroupIdle ==
    /\ closed = FALSE
    /\ wgCount = 0
    /\ steps = [s \in Steps |-> NoStep]
    /\ waitPc = "idle"
    /\ crashedBy = 0

\* no ErrorWithContext call has been made, nothing written
ErrorIdle ==
    /\ ewcCall = [err |-> "", sub |-> "", ctx |-> <<>>]
    /\ ctx = <<>>
    /\ written = <<>>
    /\ ctxIdx = 0

\* no command is running
InfoIdle ==
    /\ args = <<>>
    /\ rc = -1
    /\ ui = <<>>
    /\ doc = <<>>
    /\ rendered = FALSE
    /\ stages = <<>>

\* no status command is running
StatusIdle ==
    /\ deploymentName = ""
    /\ packName = ""
    /\ listing = "none"

InitResolve ==
    /\ pc = "resolve"
    /\ p \in { << VariableSpec("root", "x", sh) >> : sh \in SpecShapes }
    /\ sources \in SeqsUpTo(ResolveSources, MaxSources)
    /\ ignoreMissingVars \in BOOLEAN
    /\ parsedVars = <<>>
    /\ diags = <<>>
    /\ diagsNil = FALSE
    /\ InfoIdle
    /\ StatusIdle
    /\ CacheIdle
    /\ GroupIdle
    /\ ErrorIdle

\* Resolver.Resolve() applied to the inputs.
DoResolve ==
    /\ pc = "resolve"
    /\ LET r == Resolve(p, sources, ignoreMissingVars)
       IN /\ parsedVars' = r.vars
          /\ diags' = r.diags
    /\ pc' = "resolved"
    /\ diagsNil' = FALSE
    /\ UNCHANGED <<p, sources, ignoreMissingVars, infoVars, notInfo>>

NextResolve == DoResolve

SpecResolve == InitResolve /\ [][NextResolve]_vars

----------------------------------------------------------------------------
(* C1: precedence of the sources of one variable *)

\* the value the ResolvedVariableSet holds for a spec (Unset when absent)
ResolvedValue(s) ==
    LET I == { i \in 1..Len(parsedVars) :
                 parsedVars[i].pack = s.pack /\ parsedVars[i].name = s.name }
    IN IF I = {} THEN Unset ELSE parsedVars[CHOOSE i \in I : TRUE].value

\* positions of the sources that target the qualified name of s
QualifiedFor(s) == { j \in 1..Len(sources) : IsQualifiedFor(sources[j], s) }

Highest(J) == CHOOSE j \in J : \A k \in J : Rank(sources[k].kind) <= Rank(sources[j].kind)
Lowest(J)  == CHOOSE j \in J : \A k \in J : Rank(sources[j].kind) <= Rank(sources[k].kind)

\* the claim's case: at most one source of each kind targets the qualified
\* name, and the bare name is not in play
OneSourcePerKind(s) ==
    /\ \A j, k \in QualifiedFor(s) :
          j # k => sources[j].kind # sources[k].kind
    /\ QualifiedFor(s) # {} \/ ~ \E j \in 1..Len(sources) : IsBareFor(sources[j], s)

Reordered(f) == [i \in 1..Len(sources) |-> sources[f[i]]]

OrderIndependent ==
    \A f \in Permutations(1..Len(sources)) :
        Resolve(p, Reordered(f), ignoreMissingVars).vars = parsedVars

\* the type every override of s is reconciled against (4.4 step 3)
ReconciledType(s) ==
    IF s.type # NilType THEN s.type
    ELSE IF s.default # Unset THEN TypeOf(s.default)
    ELSE IF QualifiedFor(s) = {} THEN NilType
    ELSE TypeOf(sources[Lowest(QualifiedFor(s))].value)

Accepted(s) ==
    { j \in QualifiedFor(s) : TypeOf(sources[j].value) = ReconciledType(s) }

\* C1 as stated: the resolved value of a variable is the value of the
\* highest-precedence source present for its qualified name (the default
\* when there is none), whatever the order the sources were supplied in.
C1_HighestSourcePresentWins ==
    pc = "resolved" =>
        \A i \in 1..Len(p) :
            OneSourcePerKind(p[i]) =>
                /\ ResolvedValue(p[i]) =
                      IF QualifiedFor(p[i]) = {} THEN p[i].default
                      ELSE sources[Highest(QualifiedFor(p[i]))].value
                /\ OrderIndependent

\* C1 amended: the resolved value of a variable is the value of the
\* highest-precedence source for its qualified name among those whose value
\* has the type the variable is reconciled against (the default when there
\* is none), whatever the order the sources were supplied in.
C1_HighestAcceptedSourceWins ==
    pc = "resolved" =>
        \A i \in 1..Len(p) :
            OneSourcePerKind(p[i]) =>
                /\ ResolvedValue(p[i]) =
                      IF Accepted(p[i]) = {} THEN p[i].default
                      ELSE sources[Highest(Accepted(p[i]))].value
                /\ OrderIndependent

\* default "a", command-line "c" supplied before shared-file "b": "c"
C1_Witness ==
    /\ pc = "resolved"
    /\ p = << VariableSpec("root", "x", <<NilType, "a">>) >>
    /\ sources = << Source("cli", "root", "x", "c"),
                    Source("sharedFile", "root", "x", "b") >>
    /\ ResolvedValue(p[1]) = "c"

----------------------------------------------------------------------------
(* The info command: InfoCommand.Run (internal/cli/info.go) *)

MaxVars == 2         \* VariableSpecs of one loaded pack tree

StageOrder == <<"init", "verify", "load", "newParser", "parse", "render">>

Stage(name, ok) == [name |-> name, ok |-> ok]

UIError(text) == [style |-> "error", text |-> text, diags |-> <<>>]
UIInfo(text)  == [style |-> "info", text |-> text, diags |-> <<>>]
UIWarning(text) == [style |-> "warning", text |-> text, diags |-> <<>>]
UITable(text) == [style |-> "table", text |-> text, diags |-> <<>>]

\* c.ui.Info(diags.Error()): the formatted string of every diagnostic held
UIDiags(ds)   == [style |-> "info", text |-> "diags", diags |-> ds]

InfoArgs == { <<>>, <<"hello_world">>, <<"hello_world", "extra">> }

\* what the environment can hand to the engine during info
InfoSources ==
    { Source("env", Bare, "x", "b"),
      Source("env", "child", "x", "b"),
      Source("env", Bare, "z", "b") }

InfoShapes == { <<NilType, Unset>>, <<NilType, "a">>, <<"number", "1">> }

InfoSpecs ==
    { VariableSpec(pk, n, sh) :
        pk \in {"root", "child"}, n \in {"x", "y"}, sh \in InfoShapes }

\* the pack trees loader.Load can return: no (pack, name) declared twice
PackTrees ==
    { t \in SeqsUpTo(InfoSpecs, MaxVars) :
        \A i, j \in 1..Len(t) :
            i # j => ~ (t[i].pack = t[j].pack /\ t[i].name = t[j].name) }

InitInfo ==
    /\ pc = "init"
    /\ p = <<>>
    /\ sources \in SeqsUpTo(InfoSources, MaxSources)
    /\ ignoreMissingVars \in BOOLEAN
    /\ parsedVars = <<>>
    /\ diags = <<>>
    /\ diagsNil = FALSE
    /\ args \in InfoArgs
    /\ rc = -1
    /\ ui = <<>>
    /\ doc = <<>>
    /\ rendered = FALSE
    /\ stages = <<>>
    /\ StatusIdle
    /\ CacheIdle
    /\ GroupIdle
    /\ ErrorIdle

\* a stage failed: Run returns 1 after writing `out` to the UI
Fail(stage, out) ==
    /\ stages' = Append(stages, Stage(stage, FALSE))
    /\ ui' = ui \o out
    /\ rc' = 1
    /\ pc' = "done"

Pass(stage, next) ==
    /\ stages' = Append(stages, Stage(stage, TRUE))
    /\ pc' = next
    /\ UNCHANGED <<rc, ui>>

\* c.Init(WithExactArgs(1, args), WithFlags(...), WithNoConfig())
InfoInit ==
    /\ pc = "init"
    /\ \E flagsOk \in BOOLEAN :
          IF flagsOk /\ Len(args) = 1
          THEN Pass("init", "verify")
          ELSE Fail("init", << UIError("ErrParsingArgsOrFlags"),
                               UIInfo("helpUsageMessage") >>)
    /\ UNCHANGED <<engineVars, args, doc, rendered, notInfo>>

\* cache.VerifyPackExists(c.packConfig, errorContext, c.ui): it is handed
\* the UI and the error context and reports its own failure
VerifyPackExistsOutput == << UIError("VerifyPackExists") >>

InfoVerify ==
    /\ pc = "verify"
    /\ \E exists \in BOOLEAN :
          IF exists
          THEN Pass("verify", "load")
          ELSE Fail("verify", VerifyPackExistsOutput)
    /\ UNCHANGED <<engineVars, args, doc, rendered, notInfo>>

\* loader.Load(packPath)
InfoLoad ==
    /\ pc = "load"
    /\ \/ \E t \in PackTrees :
             /\ p' = t
             /\ Pass("load", "newParser")
       \/ /\ Fail("load", << UIError("failed to load pack from local directory") >>)
          /\ UNCHANGED p
    /\ UNCHANGED <<sources, ignoreMissingVars, parsedVars, diags, diagsNil,
                   args, doc, rendered, notInfo>>

InfoNewParserIgnoreErr ==
    /\ pc = "newParser"
    /\ \E ok \in BOOLEAN :
          /\ stages' = Append(stages, Stage("newParser", ok))
          /\ pc' = "parse"
          /\ UNCHANGED <<rc, ui>>
    /\ UNCHANGED <<engineVars, args, doc, rendered, notInfo>>

\* parser.NewParser(&config.ParserConfig{...})
InfoNewParser ==
    /\ pc = "newParser"
    /\ \E ok \in BOOLEAN :
          IF ok
          THEN Pass("newParser", "parse")
          ELSE Fail("newParser", <<>>)
    /\ UNCHANGED <<engineVars, args, doc, rendered, notInfo>>

ParseFailedOnAnyDiag(isNil, ds) == ~ isNil /\ ds # <<>>

ParseNeverFails(isNil, ds) == FALSE

\* diags != nil && diags.HasErrors()
ParseFailed(isNil, ds) == ~ isNil /\ HasErrors(ds)

\* parsedVars, diags := variableParser.Parse()
InfoParse ==
    /\ pc = "parse"
    /\ LET r == Resolve(p, sources, ignoreMissingVars)
       IN /\ parsedVars' = r.vars
          /\ diags' = r.diags
          /\ diagsNil' \in (IF r.diags = <<>> THEN BOOLEAN ELSE {FALSE})
          /\ IF ParseFailed(diagsNil', r.diags)
             THEN Fail("parse", << UIDiags(r.diags) >>)
             ELSE Pass("parse", "render")
    /\ UNCHANGED <<p, sources, ignoreMissingVars, args, doc, rendered, notInfo>>

\* varType: the explicit type, or the default's type, or "unknown"
VarType(v) ==
    IF v.type # NilType THEN v.type
    ELSE IF v.default # Unset THEN TypeOf(v.default)
    ELSE "unknown"

VarRow(v, label) ==
    [kind |-> "var", pack |-> v.pack, name |-> v.name,
     type |-> VarType(v), label |-> label]

HeaderRow(kind, text) ==
    [kind |-> kind, pack |-> text, name |-> "", type |-> "", label |-> ""]

RECURSIVE RowsOf(_, _)
RowsOf(variables, label) ==
    IF variables = <<>> THEN <<>>
    ELSE << VarRow(Head(variables), label) >> \o RowsOf(Tail(variables), label)

\* v.Default.IsNull()
IsRequired(v) == v.default = Unset

VarRowsOptionalFirst(variables) ==
    RowsOf(SelectSeq(variables, LAMBDA v : ~ IsRequired(v)), "optional")
    \o RowsOf(SelectSeq(variables, LAMBDA v : IsRequired(v)), "required")

\* append(required, optional...)
VarRows(variables) ==
    RowsOf(SelectSeq(variables, LAMBDA v : IsRequired(v)), "required")
    \o RowsOf(SelectSeq(variables, LAMBDA v : ~ IsRequired(v)), "optional")

\* parsedVars.GetVars(): pack name -> the pack's variables
GetVars(pv) ==
    [pName \in { pv[i].pack : i \in 1..Len(pv) } |->
        SelectSeq(pv, LAMBDA v : v.pack = pName)]

RECURSIVE PackSections(_, _)
PackSections(order, byPack) ==
    IF order = <<>> THEN <<>>
    ELSE << HeaderRow("packHeader", Head(order)) >>
         \o VarRows(byPack[Head(order)])
         \o PackSections(Tail(order), byPack)

MetadataRows ==
    << HeaderRow("meta", "Pack Name"), HeaderRow("meta", "Description"),
       HeaderRow("meta", "Application URL") >>

\* the orders in which a range over a Go map can visit the keys S
RangeOrders(S) ==
    { o \in [1..Cardinality(S) -> S] :
        \A i, j \in 1..Cardinality(S) : i # j => o[i] # o[j] }

\* the glint document, then doc.RenderFrame() and return 0
InfoRender ==
    /\ pc = "render"
    /\ \E order \in RangeOrders(DOMAIN GetVars(parsedVars)) :
          doc' = MetadataRows \o PackSections(order, GetVars(parsedVars))
    /\ rendered' = TRUE
    /\ stages' = Append(stages, Stage("render", TRUE))
    /\ rc' = 0
    /\ pc' = "done"
    /\ UNCHANGED <<engineVars, args, ui, notInfo>>

NextInfo ==
    \/ InfoInit
    \/ InfoVerify
    \/ InfoLoad
    \/ InfoNewParser
    \/ InfoParse
    \/ InfoRender

SpecInfo == InitInfo /\ [][NextInfo]_vars

----------------------------------------------------------------------------
(* Claims about the info command *)

ParseRan == \E i \in 1..Len(stages) : stages[i].name = "parse"

NoMatchingSource(s) ==
    \A j \in 1..Len(sources) :
        ~ IsQualifiedFor(sources[j], s) /\ ~ IsBareFor(sources[j], s)

HasDiag(sev, kind, s) ==
    \E i \in 1..Len(diags) : diags[i] = Diag(sev, kind, s.pack, s.name)

\* C2: a spec with no default and no matching source: without
\* ignoreMissing, a MissingRequired error is emitted, HasErrors() is true
\* and info returns 1; with ignoreMissing, HasErrors() is false and the
\* variable is absent from the resolved result.
C2_RequiredWithoutDefault ==
    ParseRan =>
        \A i \in 1..Len(p) :
            (p[i].default = Unset /\ NoMatchingSource(p[i])) =>
                IF ignoreMissingVars
                THEN /\ ~ HasErrors(diags)
                     /\ ResolvedValue(p[i]) = Unset
                ELSE /\ HasDiag("error", "MissingRequired", p[i])
                     /\ HasErrors(diags)
                     /\ pc = "done"
                     /\ rc = 1

C2_Witness ==
    /\ ParseRan
    /\ ~ ignoreMissingVars
    /\ \E i \in 1..Len(p) :
          /\ p[i].default = Unset
          /\ NoMatchingSource(p[i])
          /\ HasDiag("error", "MissingRequired", p[i])
    /\ pc = "done"
    /\ rc = 1

\* C4: once Parse has run, Run renders the pack information and returns 0
\* when the diagnostics hold no error (nil, empty or warnings only), and
\* returns 1 without rendering when they hold an error.
C4_OnlyErrorsFail ==
    (pc = "done" /\ ParseRan) =>
        IF ~ diagsNil /\ HasErrors(diags)
        THEN rc = 1 /\ ~ rendered /\ doc = <<>>
        ELSE rc = 0 /\ rendered /\ doc # <<>>

C4_Witness ==
    /\ pc = "done"
    /\ ParseRan
    /\ diags # <<>>
    /\ ~ HasErrors(diags)
    /\ rc = 0
    /\ rendered

\* C5: every warning among the diagnostics returned by Parse is displayed
\* to the user, also when the command succeeds.
C5_WarningsRendered ==
    (pc = "done" /\ ParseRan) =>
        \A i \in 1..Len(diags) :
            diags[i].severity = "warning" =>
                \E k \in 1..Len(ui) :
                    \E j \in 1..Len(ui[k].diags) : ui[k].diags[j] = diags[i]

\* C6: the stages run in the fixed order, each only after every earlier one
\* succeeded; a failed stage ends Run with 1, nothing rendered; Run returns
\* 0 only after the render stage.
C6_StageOrder ==
    /\ Len(stages) <= Len(StageOrder)
    /\ \A i \in 1..Len(stages) : stages[i].name = StageOrder[i]
    /\ \A i \in 1..Len(stages) : i < Len(stages) => stages[i].ok
    /\ (stages # <<>> /\ ~ stages[Len(stages)].ok) =>
          pc = "done" /\ rc = 1 /\ doc = <<>> /\ ~ rendered
    /\ rc = 1 => (stages # <<>> /\ ~ stages[Len(stages)].ok)
    /\ rc = 0 => (pc = "done" /\ Len(stages) = Len(StageOrder) /\ rendered)
    /\ pc # "done" => rc = -1
    /\ rendered => rc = 0

C6_Witness ==
    /\ pc = "done"
    /\ rc = 1
    /\ Len(stages) = 3
    /\ ~ stages[3].ok
    /\ ~ rendered

\* C7: on every path on which Run returns 1, an error message or a
\* diagnostic was written to the UI.
C7_FailuresSurfaced ==
    (pc = "done" /\ rc = 1) =>
        \E k \in 1..Len(ui) : ui[k].style = "error" \/ ui[k].diags # <<>>

VarRowsFor(v) ==
    { k \in 1..Len(doc) :
        doc[k].kind = "var" /\ doc[k].pack = v.pack /\ doc[k].name = v.name }

\* the pack whose section row k of the document lies in
SectionOf(k) ==
    LET H == { h \in 1..(k - 1) : doc[h].kind = "packHeader" }
    IN IF H = {} THEN "" ELSE doc[CHOOSE h \in H : \A g \in H : g <= h].pack

\* C9: in the rendered document every variable of the parsed result has
\* exactly one row, in its pack's section, labelled required iff its default
\* is null, and within a pack every required row precedes every optional one.
C9_RequiredRowsFirst ==
    (pc = "done" /\ rc = 0) =>
        /\ \A i \in 1..Len(parsedVars) :
              /\ Cardinality(VarRowsFor(parsedVars[i])) = 1
              /\ \A k \in VarRowsFor(parsedVars[i]) :
                    /\ doc[k].label = (IF parsedVars[i].default = Unset
                                       THEN "required" ELSE "optional")
                    /\ SectionOf(k) = parsedVars[i].pack
        /\ \A k \in 1..Len(doc) :
              doc[k].kind = "var" =>
                  \E i \in 1..Len(parsedVars) : k \in VarRowsFor(parsedVars[i])
        /\ \A k, l \in 1..Len(doc) :
              (/\ doc[k].kind = "var" /\ doc[l].kind = "var"
               /\ doc[k].pack = doc[l].pack
               /\ doc[k].label = "required" /\ doc[l].label = "optional")
              => k < l

\* an optional variable declared before a required one of the same pack
C9_Witness ==
    /\ pc = "done"
    /\ rc = 0
    /\ \E i, j \in 1..Len(parsedVars) :
          /\ i < j
          /\ parsedVars[i].pack = parsedVars[j].pack
          /\ parsedVars[i].default # Unset
          /\ parsedVars[j].default = Unset
          /\ \E k, l \in 1..Len(doc) :
                /\ k < l
                /\ k \in VarRowsFor(parsedVars[j])
                /\ l \in VarRowsFor(parsedVars[i])

----------------------------------------------------------------------------
(* The status command: StatusCommand.Run *)

MaxArgs == 2         \* positional arguments on the command line

NoError == "<nil>"

ArgStrings == {"", "example", "other"}

DeploymentNames == {"", "dev", "prod"}

EngineIdle ==
    /\ p = <<>>
    /\ sources = <<>>
    /\ ignoreMissingVars = FALSE
    /\ parsedVars = <<>>
    /\ diags = <<>>
    /\ diagsNil = FALSE

InitStatus ==
    /\ pc = "statusInit"
    /\ EngineIdle
    /\ args \in SeqsUpTo(ArgStrings, MaxArgs)
    /\ rc = -1
    /\ ui = <<>>
    /\ doc = <<>>
    /\ rendered = FALSE
    /\ stages = <<>>
    /\ deploymentName \in DeploymentNames
    /\ packName = ""
    /\ listing = "none"
    /\ CacheIdle
    /\ GroupIdle
    /\ ErrorIdle

\* validateStatusArgs(b, args); the flags are parsed before it runs
validateStatusArgs(name, a) ==
    IF Len(a) > 1
    THEN "this command accepts at most 1 arg"
    ELSE IF name # "" /\ Len(a) = 0
    THEN "--name can only be used if pack name is provided"
    ELSE NoError

\* c.Init(WithCustomArgs(args, validateStatusArgs), ...) and, when it
\* succeeds, c.packConfig.Name = c.args[0] for a non-empty argument list
StatusInit ==
    /\ pc = "statusInit"
    /\ \E flagsOk \in BOOLEAN :
          IF flagsOk /\ validateStatusArgs(deploymentName, args) = NoError
          THEN /\ packName' = (IF Len(args) > 0 THEN args[1] ELSE "")
               /\ Pass("init", "client")
          ELSE /\ Fail("init", << UIError("ErrParsingArgsOrFlags"),
                                  UIInfo("helpUsageMessage") >>)
               /\ UNCHANGED packName
    /\ UNCHANGED <<engineVars, args, doc, rendered, deploymentName, listing, notCli>>

\* c.getAPIClient()
StatusClient ==
    /\ pc = "client"
    /\ \/ Pass("client", "route")
       \/ Fail("client", << UIError("failed to initialize client") >>)
    /\ UNCHANGED <<engineVars, args, doc, rendered, statusVars, notCli>>

\* renderAllDeployedPacks: taken when the pack name is empty
RenderAllDeployedPacks ==
    /\ pc = "route"
    /\ packName = ""
    /\ listing' = "allPacks"
    /\ stages' = Append(stages, Stage("allPacks", TRUE))
    /\ pc' = "done"
    /\ \/ ui' = Append(ui, UIError("error retrieving packs")) /\ rc' = 1
       \/ ui' = Append(ui, UIWarning("no packs found"))
          /\ rc' = 0
       \/ ui' = Append(ui, UITable("deployed packs"))
          /\ rc' = 0
    /\ UNCHANGED <<engineVars, args, doc, rendered, deploymentName, packName, notCli>>

\* renderDeployedPackJobs: the jobs of one pack, filtered by deployment name
RenderDeployedPackJobs ==
    /\ pc = "route"
    /\ packName # ""
    /\ listing' = "packJobs"
    /\ stages' = Append(stages, Stage("packJobs", TRUE))
    /\ pc' = "done"
    /\ \/ ui' = Append(ui, UIError("error retrieving jobs")) /\ rc' = 1
       \/ ui' = Append(ui, UIWarning("no jobs found for pack"))
          /\ rc' = 0
       \/ ui' = Append(ui, UITable("pack jobs"))
          /\ rc' = 0
       \/ ui' = ui \o << UITable("pack jobs"),
                         UIWarning("error retrieving job status"),
                         UITable("job errors") >>
          /\ rc' = 0
    /\ UNCHANGED <<engineVars, args, doc, rendered, deploymentName, packName, notCli>>

NextStatus ==
    \/ StatusInit
    \/ StatusClient
    \/ RenderAllDeployedPacks
    \/ RenderDeployedPackJobs

SpecStatus == InitStatus /\ [][NextStatus]_vars

InitPassed == stages # <<>> /\ stages[1].name = "init" /\ stages[1].ok

\* C8: past Init with a deployment name set, the pack name is non-empty and
\* the per-pack job listing is the one that runs, never the listing of all
\* deployed packs; more than one argument is always rejected.
C8_NameOnlyWithPack ==
    /\ (InitPassed /\ deploymentName # "") =>
          /\ packName # ""
          /\ listing # "allPacks"
          /\ pc = "done" /\ Len(stages) = 3 => listing = "packJobs"
    /\ InitPassed => Len(args) <= 1

----------------------------------------------------------------------------
(* Registry Cache: Ensure (design document 4.2 and 5) *)

References == ResolvedRefs \cup {"latest"}

notCache == <<pc, engineVars, infoVars, statusVars, groupVars, errorVars>>

InitCache ==
    /\ pc = "cache"
    /\ EngineIdle
    /\ InfoIdle
    /\ StatusIdle
    /\ CacheIdle
    /\ GroupIdle
    /\ ErrorIdle

\* Ensure(reference): the ref is resolved first ("latest" to whatever the
\* remote reports now), the resolved ref keys the cache
EnsureCall(c) ==
    /\ callers[c].pc = "idle"
    /\ callers[c].calls < MaxEnsure
    /\ \E ref \in References :
          \E resolved \in (IF ref = "latest" THEN ResolvedRefs ELSE {ref}) :
              callers' = [callers EXCEPT ![c] =
                  [pc |-> "waiting", key |-> CacheKey(resolved),
                   result |-> NoResult, calls |-> @.calls + 1]]
    /\ UNCHANGED <<cacheEntry, keyLock, fetches, failedFetches, notCache>>

EnsureAcquireUnserialized(c) ==
    /\ callers[c].pc = "waiting"
    /\ keyLock' = [keyLock EXCEPT ![callers[c].key] = c]
    /\ callers' = [callers EXCEPT ![c].pc = "locked"]
    /\ UNCHANGED <<cacheEntry, fetches, failedFetches, notCache>>

\* calls sharing a key are serialized (per-key mutex)
EnsureAcquire(c) ==
    /\ callers[c].pc = "waiting"
    /\ keyLock[callers[c].key] = 0
    /\ keyLock' = [keyLock EXCEPT ![callers[c].key] = c]
    /\ callers' = [callers EXCEPT ![c].pc = "locked"]
    /\ UNCHANGED <<cacheEntry, fetches, failedFetches, notCache>>

\* no-op on hit: the existing entry is returned
EnsureHit(c) ==
    /\ callers[c].pc = "locked"
    /\ cacheEntry[callers[c].key] # 0
    /\ callers' = [callers EXCEPT
          ![c].pc = "idle",
          ![c].result = [status |-> "ok", entry |-> cacheEntry[callers[c].key]]]
    /\ keyLock' = [keyLock EXCEPT ![callers[c].key] = 0]
    /\ UNCHANGED <<cacheEntry, fetches, failedFetches, notCache>>

\* fetch on miss: the remote fetch starts
EnsureMiss(c) ==
    /\ callers[c].pc = "locked"
    /\ cacheEntry[callers[c].key] = 0
    /\ fetches' = [fetches EXCEPT ![callers[c].key] = @ + 1]
    /\ callers' = [callers EXCEPT ![c].pc = "fetching"]
    /\ UNCHANGED <<cacheEntry, keyLock, failedFetches, notCache>>

\* the fetch succeeded: the entry is created, stamped with its fetch
FetchSucceed(c) ==
    /\ callers[c].pc = "fetching"
    /\ cacheEntry' = [cacheEntry EXCEPT ![callers[c].key] = fetches[callers[c].key]]
    /\ callers' = [callers EXCEPT
          ![c].pc = "idle",
          ![c].result = [status |-> "ok", entry |-> fetches[callers[c].key]]]
    /\ keyLock' = [keyLock EXCEPT ![callers[c].key] = 0]
    /\ UNCHANGED <<fetches, failedFetches, notCache>>

\* timeout or transient failure: FetchFailed, retryable by the caller
FetchFail(c) ==
    /\ callers[c].pc = "fetching"
    /\ failedFetches' = [failedFetches EXCEPT ![callers[c].key] = @ + 1]
    /\ callers' = [callers EXCEPT
          ![c].pc = "idle",
          ![c].result = [status |-> "FetchFailed", entry |-> 0]]
    /\ keyLock' = [keyLock EXCEPT ![callers[c].key] = 0]
    /\ UNCHANGED <<cacheEntry, fetches, notCache>>

NextCache ==
    \E c \in Callers :
        \/ EnsureCall(c)
        \/ EnsureAcquire(c)
        \/ EnsureHit(c)
        \/ EnsureMiss(c)
        \/ FetchSucceed(c)
        \/ FetchFail(c)

SpecCache == InitCache /\ [][NextCache]_vars

InFlight(k) == { c \in Callers : callers[c].pc = "fetching" /\ callers[c].key = k }

Completed(k) ==
    { c \in Callers : callers[c].pc = "idle" /\ callers[c].calls > 0 /\ callers[c].key = k }

\* C3 as stated: whatever Ensure calls are made for a key, exactly one
\* remote fetch is performed for it: never a second one, and one once a
\* call for the key has completed.
C3_ExactlyOneFetch ==
    \A k \in Keys :
        /\ fetches[k] <= 1
        /\ Completed(k) # {} => fetches[k] = 1

\* C3 amended: Ensure calls for one key never fetch at the same time and
\* never fetch once the key is populated; every remote fetch other than the
\* one that populated the key is a failed one (so exactly one fetch when
\* none fails); every call that succeeds returns the entry as it was
\* created.
C3_OneFetchUnlessFailed ==
    \A k \in Keys :
        /\ Cardinality(InFlight(k)) <= 1
        /\ InFlight(k) # {} => cacheEntry[k] = 0
        /\ fetches[k] = failedFetches[k] + Cardinality(InFlight(k))
                           + (IF cacheEntry[k] # 0 THEN 1 ELSE 0)
        /\ \A c \in Completed(k) :
              callers[c].result.status = "ok" =>
                  /\ cacheEntry[k] # 0
                  /\ callers[c].result.entry = cacheEntry[k]

\* two callers raced for one cold key: one fetched, the other got its entry
C3_Witness ==
    \E k \in Keys :
        \E c1, c2 \in Callers :
            /\ c1 # c2
            /\ {c1, c2} \subseteq Completed(k)
            /\ callers[c1].calls = 1 /\ callers[c2].calls = 1
            /\ callers[c1].result.status = "ok"
            /\ callers[c2].result = callers[c1].result
            /\ fetches[k] = 1

----------------------------------------------------------------------------
(* ErrorWithContext of the non-interactive UI: nonInteractiveUI *)

MaxCtx == 3          \* context entries handed to one ErrorWithContext call

WrapWidth == 78      \* the column the promoted entries are wrapped at

UIContextErrorDetail == "Details: "
UIContextErrorSuggestion == "Suggestion: "

notError == <<engineVars, infoVars, statusVars, cacheVars, groupVars>>

Least(I) == CHOOSE i \in I : \A j \in I : i <= j

\* strings.HasPrefix
HasPrefix(s, prefix) ==
    Len(s) >= Len(prefix) /\ SubSeq(s, 1, Len(prefix)) = prefix

\* strings.Index: the offset of the first occurrence, -1 when there is none
Index(s, substr) ==
    LET I == { i \in 1..(Len(s) - Len(substr) + 1) :
                 SubSeq(s, i, i + Len(substr) - 1) = substr }
    IN IF I = {} THEN -1 ELSE Least(I) - 1

\* strings.Repeat
RECURSIVE Repeat(_, _)
Repeat(s, count) == IF count <= 0 THEN "" ELSE s \o Repeat(s, count - 1)

\* strings.Cut
Cut(s, sep) ==
    LET i == Index(s, sep)
    IN IF i = -1
       THEN [before |-> s, after |-> "", found |-> FALSE]
       ELSE [before |-> SubSeq(s, 1, i),
             after  |-> SubSeq(s, i + Len(sep) + 1, Len(s)),
             found  |-> TRUE]

\* strings.Split
RECURSIVE Split(_, _)
Split(s, sep) ==
    LET i == Index(s, sep)
    IN IF i = -1 THEN << s >>
       ELSE << SubSeq(s, 1, i) >> \o Split(SubSeq(s, i + Len(sep) + 1, Len(s)), sep)

LowerCase == "abcdefghijklmnopqrstuvwxyz"
UpperCase == "ABCDEFGHIJKLMNOPQRSTUVWXYZ"

ToUpper(ch) ==
    LET i == Index(LowerCase, ch)
    IN IF i = -1 THEN ch ELSE SubSeq(UpperCase, i + 1, i + 1)

Capital(w) == IF w = "" THEN w ELSE ToUpper(SubSeq(w, 1, 1)) \o SubSeq(w, 2, Len(w))

\* strings.Join
RECURSIVE Join(_, _)
Join(elems, sep) ==
    IF Len(elems) = 0 THEN ""
    ELSE IF Len(elems) = 1 THEN elems[1]
    ELSE elems[1] \o sep \o Join(Tail(elems), sep)

\* helper.Title: the first letter of every word in upper case
Title(s) ==
    LET words == Split(s, " ")
    IN Join([i \in 1..Len(words) |-> Capital(words[i])], " ")

\* wordwrap.WrapString at a space: the pending space and word go to the
\* buffer and the space is held back. st is the output buffer, the width of
\* the current line, and the word and the run of spaces not yet written.
WrapSpace(st) ==
    IF st.space = "" \/ st.word # ""
    THEN [buf |-> st.buf \o st.space \o st.word,
          current |-> st.current + Len(st.space) + Len(st.word),
          word |-> "", space |-> " "]
    ELSE [st EXCEPT !.space = @ \o " "]

\* wordwrap.WrapString over the runes of one word: at the first rune that
\* takes the line past lim, while the word is shorter than lim, the line
\* breaks and the spaces held back are dropped
WrapWord(st, w, lim) ==
    LET room  == lim - st.current - Len(st.space)
        first == IF room + 1 > 1 THEN room + 1 ELSE 1
    IN IF w = "" THEN st
       ELSE IF Len(w) > room /\ first < lim
       THEN [buf |-> st.buf \o "\n", current |-> 0,
             word |-> st.word \o w, space |-> ""]
       ELSE [st EXCEPT !.word = @ \o w]

RECURSIVE WrapUpTo(_, _, _)
WrapUpTo(words, n, lim) ==
    IF n = 0
    THEN [buf |-> "", current |-> 0, word |-> "", space |-> ""]
    ELSE LET st == WrapUpTo(words, n - 1, lim)
         IN WrapWord(IF n > 1 THEN WrapSpace(st) ELSE st, words[n], lim)

\* wordwrap.WrapString(s, lim) for a text without line breaks: line breaks
\* take the place of the spaces before the words that would pass the limit
WrapString(s, lim) ==
    LET words == Split(s, " ")
        st    == WrapUpTo(words, Len(words), lim)
    IN IF st.word = ""
       THEN (IF st.current + Len(st.space) <= lim THEN st.buf \o st.space ELSE st.buf)
       ELSE st.buf \o st.space \o st.word

\* ui.Error(msg): Output in the error style marks the first line of msg
ErrorOutput(msg) ==
    LET lines == Split(msg, "\n")
    IN << "! " \o lines[1] >>
       \o [i \in 1..(Len(lines) - 1) |-> "  " \o lines[i + 1]]

RECURSIVE ErrorAll(_)
ErrorAll(msgs) ==
    IF msgs = <<>> THEN <<>>
    ELSE ErrorOutput(Head(msgs)) \o ErrorAll(Tail(msgs))

DeleteNone(c, i) == c

\* slices.Delete(ctx, i, i+1)
Delete(c, i) == SubSeq(c, 1, i - 1) \o SubSeq(c, i + 1, Len(c))

\* extractItem(ctx, key): the first entry with the prefix, taken out
extractItem(c, key) ==
    LET I == { i \in 1..Len(c) : HasPrefix(c[i], key) }
    IN IF I = {}
       THEN [ctx |-> c, item |-> "", found |-> FALSE]
       ELSE [ctx |-> Delete(c, Least(I)), item |-> c[Least(I)], found |-> TRUE]

\* the messages promote hands to ui.Error for one extracted item
PromotedMessages(item) ==
    LET cut == Cut(item, ": ")
    IN IF ~ cut.found
       THEN LET lines == Split(WrapString(cut.before, WrapWidth), "\n")
            IN [i \in 1..Len(lines) |-> "  " \o lines[i]]
       ELSE LET lines == Split(WrapString(cut.after, WrapWidth - Len(cut.before)), "\n")
            IN [i \in 1..Len(lines) |->
                  IF i = 1
                  THEN "  " \o cut.before \o ": " \o lines[i]
                  ELSE "  " \o Repeat(" ", Len(cut.before)) \o "  " \o lines[i]]

\* the widest "key:" of the entries left in ctx
RECURSIVE ContextMax(_)
ContextMax(c) ==
    IF c = <<>> THEN 0
    ELSE LET loc  == Index(c[Len(c)], ":") + 1
             rest == ContextMax(SubSeq(c, 1, Len(c) - 1))
         IN IF loc > rest THEN loc ELSE rest

ContextMessage(c, entry) ==
    "  " \o Repeat(" ", ContextMax(c) - Index(entry, ":") + 1) \o entry

ErrorStrings == { "pack not found" }
SubStrings == { "failed to load pack" }

\* context entries: two carrying the Details prefix (one longer than a
\* line), one carrying the Suggestion prefix, two other keys of different
\* widths, and one without a colon
CtxEntries ==
    { "Details: cloning github.com/hashicorp/nomad-pack-community-registry/packs/hello_world failed",
      "Details: not a pack",
      "Suggestion: check github.com/hashicorp/nomad-pack-community-registry/packs/hello_world exists",
      "Pack Name: hello_world",
      "Path: ./packs",
      "registry unreachable" }

InitError ==
    /\ pc = "ewcTitle"
    /\ EngineIdle
    /\ InfoIdle
    /\ StatusIdle
    /\ CacheIdle
    /\ GroupIdle
    /\ ewcCall \in [err : ErrorStrings, sub : SubStrings,
                    ctx : SeqsUpTo(CtxEntries, MaxCtx)]
    /\ ctx = ewcCall.ctx
    /\ written = <<>>
    /\ ctxIdx = 0

\* ui.Error(helper.Title(sub))
ErrorTitle ==
    /\ pc = "ewcTitle"
    /\ written' = written \o ErrorOutput(Title(ewcCall.sub))
    /\ pc' = "ewcError"
    /\ UNCHANGED <<ewcCall, ctx, ctxIdx, notError>>

\* ui.Error("  Error: " + err.Error())
ErrorLine ==
    /\ pc = "ewcError"
    /\ written' = written \o ErrorOutput("  Error: " \o ewcCall.err)
    /\ pc' = "ewcDetail"
    /\ UNCHANGED <<ewcCall, ctx, ctxIdx, notError>>

\* promote(key): the first entry with the prefix leaves ctx and is written
promote(key) ==
    LET r == extractItem(ctx, key)
    IN IF r.found
       THEN /\ ctx' = r.ctx
            /\ written' = (IF key = "" THEN written
                           ELSE written \o ErrorAll(PromotedMessages(r.item)))
       ELSE UNCHANGED <<ctx, written>>

\* promote(errors.UIContextErrorDetail)
PromoteDetail ==
    /\ pc = "ewcDetail"
    /\ promote(UIContextErrorDetail)
    /\ pc' = "ewcSuggestion"
    /\ UNCHANGED <<ewcCall, ctxIdx, notError>>

\* promote(errors.UIContextErrorSuggestion)
PromoteSuggestion ==
    /\ pc = "ewcSuggestion"
    /\ promote(UIContextErrorSuggestion)
    /\ pc' = "ewcContext"
    /\ UNCHANGED <<ewcCall, ctxIdx, notError>>

\* ui.Error("  Context:")
ContextHeader ==
    /\ pc = "ewcContext"
    /\ written' = written \o ErrorOutput("  Context:")
    /\ ctxIdx' = 1
    /\ pc' = "ewcEntries"
    /\ UNCHANGED <<ewcCall, ctx, notError>>

\* one round of the loop over the entries left in ctx
ContextEntry ==
    /\ pc = "ewcEntries"
    /\ ctxIdx <= Len(ctx)
    /\ written' = written \o ErrorOutput(ContextMessage(ctx, ctx[ctxIdx]))
    /\ ctxIdx' = ctxIdx + 1
    /\ UNCHANGED <<pc, ewcCall, ctx, notError>>

\* the loop is over: ErrorWithContext returns
ErrorReturn ==
    /\ pc = "ewcEntries"
    /\ ctxIdx > Len(ctx)
    /\ pc' = "ewcDone"
    /\ UNCHANGED <<errorVars, notError>>

NextError ==
    \/ ErrorTitle
    \/ ErrorLine
    \/ PromoteDetail
    \/ PromoteSuggestion
    \/ ContextHeader
    \/ ContextEntry
    \/ ErrorReturn

SpecError == InitError /\ [][NextError]_vars

\* the text of a written line, without the mark of the error style
Body(line) == SubSeq(line, 3, Len(line))

TrimLeft(s) ==
    LET I == { i \in 1..Len(s) : SubSeq(s, i, i) # " " }
    IN IF I = {} THEN "" ELSE SubSeq(s, Least(I), Len(s))

\* a promoted entry starts on a line indented by two spaces; the lines it
\* wraps onto are indented further
StartsEntry(line) ==
    HasPrefix(Body(line), "  ") /\ ~ HasPrefix(Body(line), "   ")

\* the entries a run of promoted lines holds, each wrapped one joined again
RECURSIVE Joined(_)
Joined(lines) ==
    IF lines = <<>> THEN <<>>
    ELSE LET front == Joined(SubSeq(lines, 1, Len(lines) - 1))
             text  == TrimLeft(Body(lines[Len(lines)]))
         IN IF StartsEntry(lines[Len(lines)]) \/ front = <<>>
            THEN Append(front, text)
            ELSE [front EXCEPT ![Len(front)] = @ \o " " \o text]

ContextLines == { i \in 1..Len(written) : written[i] = "!   Context:" }

\* the entries written above and below the line "Context:"
Above == Joined(SubSeq(written, 3, Least(ContextLines) - 1))
Below ==
    [i \in 1..(Len(written) - Least(ContextLines)) |->
        TrimLeft(Body(written[Least(ContextLines) + i]))]

\* the position in c of the first entry carrying the prefix (0 when none)
FirstWith(c, key) ==
    LET I == { i \in 1..Len(c) : HasPrefix(c[i], key) }
    IN IF I = {} THEN 0 ELSE Least(I)

RECURSIVE Without(_, _)
Without(c, I) ==
    IF c = <<>> THEN <<>>
    ELSE Without(SubSeq(c, 1, Len(c) - 1), I)
         \o (IF Len(c) \in I THEN <<>> ELSE << c[Len(c)] >>)

GivenDetail == FirstWith(ewcCall.ctx, UIContextErrorDetail)
GivenSuggestion == FirstWith(ewcCall.ctx, UIContextErrorSuggestion)

\* C11: once ErrorWithContext has returned, the writer holds the title line,
\* the error line, the first entry carrying the Details prefix, the first
\* entry carrying the Suggestion prefix, the line "Context:" and then every
\* other entry in the order it was given; every entry given is there exactly
\* once, a promoted one never again under "Context:", and all of them under
\* "Context:" when none carries either prefix.
C11_EachEntryOnceInOrder ==
    pc = "ewcDone" =>
        /\ written[1] = "! " \o Title(ewcCall.sub)
        /\ written[2] = "!   Error: " \o ewcCall.err
        /\ Cardinality(ContextLines) = 1
        /\ Above = (IF GivenDetail = 0 THEN <<>>
                    ELSE << ewcCall.ctx[GivenDetail] >>)
                   \o (IF GivenSuggestion = 0 THEN <<>>
                       ELSE << ewcCall.ctx[GivenSuggestion] >>)
        /\ Below = Without(ewcCall.ctx, {GivenDetail, GivenSuggestion})
        /\ Len(Above) + Len(Below) = Len(ewcCall.ctx)
        /\ (GivenDetail = 0 /\ GivenSuggestion = 0) =>
              /\ Least(ContextLines) = 3
              /\ Below = ewcCall.ctx

\* a Suggestion given before two Details entries, the first of them longer
\* than a line: both promoted, the second Details entry left under "Context:"
C11_Witness ==
    /\ pc = "ewcDone"
    /\ Len(ewcCall.ctx) = 3
    /\ GivenSuggestion = 1
    /\ GivenDetail = 2
    /\ HasPrefix(ewcCall.ctx[3], UIContextErrorDetail)
    /\ Least(ContextLines) > 5
    /\ Below = << ewcCall.ctx[3] >>

----------------------------------------------------------------------------
(* The step group of the non-interactive UI: nonInteractiveStepGroup *)

notGroup == <<pc, engineVars, infoVars, statusVars, cacheVars, errorVars>>

InitGroup ==
    /\ pc = "group"
    /\ EngineIdle
    /\ InfoIdle
    /\ StatusIdle
    /\ CacheIdle
    /\ GroupIdle
    /\ ErrorIdle

\* one more call made on step s, the latest being `method`
Called(s, method) == [steps EXCEPT ![s].calls = @ + 1, ![s].last = method]

\* Add, up to the lock: the step is built and step.Update prints
\* (addedClosed records whether Wait had closed the group when Add was called)
AddUpdate(s) ==
    /\ crashedBy = 0
    /\ steps[s].state = "none"
    /\ steps' = [steps EXCEPT ![s].state = "updating", ![s].addedClosed = closed]
    /\ UNCHANGED <<closed, wgCount, waitPc, crashedBy, notGroup>>

\* Add's critical section without the test of f.closed
AddRegisterAlways(s) ==
    /\ crashedBy = 0
    /\ steps[s].state = "updating"
    /\ steps' = [steps EXCEPT ![s].state = "live", ![s].wg = TRUE]
    /\ wgCount' = wgCount + 1
    /\ UNCHANGED <<closed, waitPc, crashedBy, notGroup>>

\* Add, under the lock: the step joins the wait group unless closed
AddRegister(s) ==
    /\ crashedBy = 0
    /\ steps[s].state = "updating"
    /\ steps' = [steps EXCEPT ![s].state = "live", ![s].wg = ~ closed]
    /\ wgCount' = (IF closed THEN wgCount ELSE wgCount + 1)
    /\ UNCHANGED <<closed, waitPc, crashedBy, notGroup>>

\* Wait, under the lock: f.closed = true
WaitClose ==
    /\ crashedBy = 0
    /\ waitPc = "idle"
    /\ closed' = TRUE
    /\ waitPc' = "waiting"
    /\ UNCHANGED <<wgCount, steps, crashedBy, notGroup>>

\* wg.Wait() returns once the counter is zero
WaitReturn ==
    /\ crashedBy = 0
    /\ waitPc = "waiting"
    /\ wgCount = 0
    /\ waitPc' = "returned"
    /\ UNCHANGED <<closed, wgCount, steps, crashedBy, notGroup>>

\* Update prints under the lock
StepUpdate(s) ==
    /\ crashedBy = 0
    /\ steps[s].state = "live"
    /\ steps[s].calls < MaxCalls
    /\ steps' = Called(s, "Update")
    /\ UNCHANGED <<closed, wgCount, waitPc, crashedBy, notGroup>>

\* Status does nothing
StepStatus(s) ==
    /\ crashedBy = 0
    /\ steps[s].state = "live"
    /\ steps[s].calls < MaxCalls
    /\ steps' = Called(s, "Status")
    /\ UNCHANGED <<closed, wgCount, waitPc, crashedBy, notGroup>>

\* Done: a second call returns early; the first sets done and calls
\* f.wg.Done(), which dereferences f.wg (a nil *sync.WaitGroup panics)
Done(s, method) ==
    /\ crashedBy = 0
    /\ steps[s].state = "live"
    /\ steps[s].calls < MaxCalls
    /\ IF steps[s].done
       THEN /\ steps' = Called(s, method)
            /\ UNCHANGED <<wgCount, crashedBy>>
       ELSE /\ steps' = [Called(s, method) EXCEPT ![s].done = TRUE]
            /\ IF steps[s].wg
               THEN wgCount' = wgCount - 1 /\ UNCHANGED crashedBy
               ELSE crashedBy' = s /\ UNCHANGED wgCount
    /\ UNCHANGED <<closed, waitPc, notGroup>>

StepDone(s) == Done(s, "Done")

\* Abort calls Done
StepAbort(s) == Done(s, "Abort")

NextGroup ==
    \/ WaitClose
    \/ WaitReturn
    \/ \E s \in Steps :
          \/ AddUpdate(s)
          \/ AddRegister(s)
          \/ StepUpdate(s)
          \/ StepStatus(s)
          \/ StepDone(s)
          \/ StepAbort(s)

SpecGroup == InitGroup /\ [][NextGroup]_vars

\* C10: a step returned by an Add called after Wait closed the group is not
\* in the wait group, and no call made on it (Update, Status, Done, Abort)
\* crashes.
C10_ClosedGroupStaysUsable ==
    \A s \in Steps :
        (steps[s].state = "live" /\ steps[s].addedClosed) =>
            /\ ~ steps[s].wg
            /\ crashedBy # s

\* the steps Add put in the wait group
Registered == { s \in Steps : steps[s].wg }

\* C12: under every interleaving of Add, Done, Abort and Wait, Wait has
\* returned only if every step Add registered in the wait group has had Done
\* or Abort called, and once Wait has set closed no step is registered in
\* the wait group any more.
C12_WaitCoversRegistered ==
    /\ [](waitPc = "returned" => \A s \in Registered : steps[s].done)
    /\ [][closed => \A s \in Steps : steps'[s].wg => steps[s].wg]_vars

\* Wait returned after a registered step was aborted, while the Add of the
\* other step, called before Wait, reached its critical section after Wait
\* had set closed and left the step out of the wait group
C12_Witness ==
    /\ waitPc = "returned"
    /\ \E s, t \in Steps :
          /\ steps[s].wg /\ steps[s].done /\ steps[s].last = "Abort"
          /\ steps[t].state = "live"
          /\ ~ steps[t].addedClosed
          /\ ~ steps[t].wg

====
